---- MODULE Spec2Model ----
(***************************************************************************)
(* NeuraBalancer: the backend pool (LoadBalancer, Server), the health      *)
(* prober, the dispatcher (GetServer / ForwardRequest), the handler bound  *)
(* to POST /request, the selection strategies and the predictive strategy  *)
(* with its circuit breaker and prediction cache.                          *)
(***************************************************************************)
EXTENDS Integers, Sequences, FiniteSets, TLC

(* ---------------------------- bounds ----------------------------------- *)
NumServers == 2
NumDispatch == 2
MaxRequests == 2
MaxSelections == 3
MaxTime == 30
TickStep == 15
MaxSamples == 3
NumThreads == 3

(* ------------------------ program constants ---------------------------- *)
healthCheckRetries == 3
CoolDown == 30
StatusServiceUnavailable == 503
StatusBadGateway == 502
StatusInternalServerError == 500
StatusOK == 200

Servers == 1..NumServers
Dispatchers == 1..NumDispatch
Threads == 1..NumThreads
NoServer == 0

\* lb.servers: the pool in construction order (balancer.go NewLoadBalancer)
ServerSeq == [i \in 1..NumServers |-> i]

\* Server.ID as loaded from the store: the row id of the registered backend
ServerID(s) == s

\* Server.Weight where the store holds none: "weight := 1"
DefaultWeight == 1

\* Server.Capacity; the store's default capacity
Capacity(s) == 1

\* statuses a backend can answer with; 0 stands for a status line the
\* ResponseWriter rejects (WriteHeader panics on codes below 100)
BackendStatuses == {200, 500}
InvalidStatus == 0

VARIABLES
    Alive,              \* Server.Alive
    Connections,        \* Server.Connections
    lbmu,               \* holder of LoadBalancer.mu: <<"free", 0>>, <<"prober", 0>> or <<"d", d>>
    strategy,           \* which Strategy lb.strategy is
    counter,            \* RoundRobinStrategy.counter
    serverConnections,  \* LeastConnectionsStrategy.serverConnections
    currentWeights,     \* WeightedRoundRobinStrategy.currentWeights
    disp,               \* one ForwardRequest call frame per dispatcher
    hreq,               \* the HandleRequest call frame (POST /request)
    prober,             \* position of startHealthChecks / checkServerHealth
    started,            \* number of requests accepted so far
    totalRequests,      \* Collector.totalRequests
    now,                \* wall clock, seconds
    cb,                 \* CircuitBreaker {isOpen, lastFailure}
    cache,              \* MLStrategy.cache: key -> predictions
    mlsel,              \* outcome of the last MLStrategy.SelectServer call
    scorer,             \* how the scorer endpoint currently answers POST /predict
    nsel,               \* number of predictive selections so far
    cacheMeta,          \* per cache key: the servers and the time of its cache.Add
    trial,              \* a run of SelectServer calls on one fixed server list
    health,             \* the LoadBalancerHealthCheck call frame (GET /health)
    telemetry,          \* the attempts table, the forwards completed, the success rate stored
    pool,               \* lb.servers: ID, URL, Weight, Capacity of each Server
    main,               \* position of main() and whether the store answers
    sink,               \* database.UpdateServerStatus: last status stored per server, writes under way
    locks               \* per goroutine: its sequence of Lock/Unlock calls, how far it is, what it holds

vars == <<Alive, Connections, lbmu, strategy, counter, serverConnections,
          currentWeights, disp, hreq, prober, started, totalRequests,
          now, cb, cache, mlsel, scorer, nsel, cacheMeta, trial, health,
          telemetry, pool, main, locks, sink>>

lbVars == <<Alive, Connections, lbmu, strategy, counter, serverConnections,
            currentWeights, disp, hreq, prober, started, totalRequests>>
mlVars == <<now, cb, cache, mlsel, scorer, nsel, cacheMeta, trial>>
auxVars == <<health, telemetry, pool, main, locks, sink>>

(* ------------------------- helper operators ---------------------------- *)
RECURSIVE FilterSeq(_, _)
FilterSeq(seq, keep) ==
    IF seq = <<>> THEN <<>>
    ELSE IF keep[Head(seq)] THEN <<Head(seq)>> \o FilterSeq(Tail(seq), keep)
         ELSE FilterSeq(Tail(seq), keep)

\* GetServer's filter loop: the alive servers, in pool order
\* (variant: the filter dropped, every server of the pool is a candidate)
HealthyServers_Unfiltered(alive) == ServerSeq
HealthyServers(alive) == FilterSeq(ServerSeq, alive)

Range(seq) == {seq[i] : i \in 1..Len(seq)}

(* --------------------------- strategies -------------------------------- *)
\* strategies.go: the weights WeightedRoundRobinStrategy installs on first use
HardWeights == <<3, 1, 2>>
WeightKeys == DOMAIN HardWeights
\* the servers the table names, in order: server1, server2, server3
WeightedServers == [i \in WeightKeys |-> i]

RECURSIVE SumSeq(_)
SumSeq(seq) == IF seq = <<>> THEN 0 ELSE Head(seq) + SumSeq(Tail(seq))

sumWeights == SumSeq(HardWeights)

\* RoundRobinStrategy.counter is a Go int: 32 bits wide on a 32-bit build and
\* 64 bits wide on a 64-bit one. The 32-bit build is the one modelled; the
\* 64-bit counter behaves alike at its own limit (2^63 is 2 modulo 3 as 2^31
\* is, and the value after the lowest one is odd in both).
MaxInt == 2147483647
MinInt == (-MaxInt) - 1

\* r.counter++ on an int: the highest value is followed by the lowest
IntInc(c) == IF c = MaxInt THEN MinInt ELSE c + 1

\* Go's a % n for n > 0: the remainder of the division truncated towards
\* zero, which has the sign of a
GoRem(a, n) == IF a >= 0 \/ a % n = 0 THEN a % n ELSE (a % n) - n

\* r.counter % len(servers)
RoundRobinIndex(servers, c) == GoRem(c, Len(servers))

\* RoundRobinStrategy.SelectServer: servers[counter % len]; an index below 0
\* is out of range, the call panics and returns no server
\* (variant: the counter is incremented before it is used)
RoundRobinSelect_PreIncrement(servers, c) == servers[((c + 1) % Len(servers)) + 1]
RoundRobinSelect(servers, c) ==
    IF RoundRobinIndex(servers, c) >= 0
    THEN servers[RoundRobinIndex(servers, c) + 1]
    ELSE NoServer

\* the scan "if value[server] < / > value[best]" starting from servers[0]
RECURSIVE ScanBest(_, _, _, _)
ScanBest(servers, best, val, less) ==
    IF servers = <<>> THEN best
    ELSE IF less
         THEN ScanBest(Tail(servers),
                       IF val[Head(servers)] < val[best] THEN Head(servers) ELSE best,
                       val, less)
         ELSE ScanBest(Tail(servers),
                       IF val[Head(servers)] > val[best] THEN Head(servers) ELSE best,
                       val, less)

\* LeastConnectionsStrategy.SelectServer: minimum of its own counts
\* (variant: no scan, the first candidate is returned)
LeastConnectionsSelect_First(servers, sc) == servers[1]
LeastConnectionsSelect(servers, sc) == ScanBest(servers, servers[1], sc, TRUE)

\* WeightedRoundRobinStrategy.SelectServer, first loop: every key of
\* serverWeights gains its weight
WRRIncrease(cw) ==
    [k \in DOMAIN cw |-> IF k \in WeightKeys THEN cw[k] + HardWeights[k] ELSE cw[k]]

\* second loop: the candidate with the highest current weight
\* (variant: the loop runs over the keys of serverWeights, not the candidates)
WRRSelect_OverKeys(servers, cw) ==
    ScanBest(WeightedServers, servers[1], WRRIncrease(cw), FALSE)
WRRSelect(servers, cw) == ScanBest(servers, servers[1], WRRIncrease(cw), FALSE)

\* the table after the winner is reduced by the sum of the weights
WRRAfter(servers, cw) ==
    LET w == WRRSelect(servers, cw) IN
    [WRRIncrease(cw) EXCEPT ![w] = @ - sumWeights]

WeightDomain == Servers \cup WeightKeys

(* --------------------------- collector --------------------------------- *)
\* Collector.RecordRequest: the rows one call adds to the requests table
RecordRequestRows(serverID, success) ==
    IF serverID <= 0 THEN <<>>
    ELSE << <<serverID, success>>, <<serverID, success>> >>

(* ----------------------------- frames ---------------------------------- *)
IdleFrame ==
    [pc |-> "idle", server |-> NoServer, status |-> 0, nres |-> 0, nrel |-> 0,
     called |-> FALSE, contacted |-> {}, rows |-> <<>>,
     exit |-> "none", cancelled |-> FALSE, resp |-> 0, attempts |-> <<>>]

IdleHandler ==
    [pc |-> "idle", targets |-> {}, pending |-> {}, responses |-> {},
     failed |-> {}, status |-> 0]

IdleProber == [phase |-> "wait", idx |-> 0, i |-> 0, wasAlive |-> FALSE,
               last |-> NoServer, got200 |-> FALSE, fails |-> 0]

ClosedBreaker == [isOpen |-> FALSE, lastFailure |-> 0]

NoSelection == [path |-> "none", servers |-> <<>>, chosen |-> NoServer,
                calls |-> 0]

\* no SelectServer call made yet on the list servers
NewTrial(servers) ==
    [servers |-> servers, n |-> 0, last |-> NoServer,
     count |-> [s \in WeightKeys |-> 0], failed |-> FALSE]

Unreachable == [kind |-> "unreachable"]

\* empty tables; a table of success flags is kept as <<successes, rows>>,
\* a rate as <<numerator, denominator>>, <<0, 0>> where none was stored
NoTelemetry ==
    [n |-> 0, attempts |-> [s \in Servers |-> <<0, 0>>],
     outcomes |-> [s \in Servers |-> <<0, 0>>],
     rate |-> [s \in Servers |-> <<0, 0>>]]

\* NewLoadBalancer: one Server per configured URL, with the id, weight and
\* capacity the store holds for it
RegisteredPool ==
    [i \in 1..NumServers |->
        [id |-> ServerID(ServerSeq[i]), url |-> ServerSeq[i],
         weight |-> DefaultWeight, capacity |-> Capacity(ServerSeq[i])]]

\* main() has built the load balancer and serves
Running == [pc |-> "running", store |-> "up"]

\* no goroutine is inside a locking operation
NoLocks ==
    [prog |-> [t \in Threads |-> <<>>], pc |-> [t \in Threads |-> 0],
     held |-> [t \in Threads |-> {}]]

\* (snap: what Alive was when GetAllServers returned)
IdleHealth ==
    [pc |-> "idle", idx |-> 0, healthy |-> {}, unhealthy |-> {}, status |-> 0,
     snap |-> [s \in Servers |-> FALSE]]

\* the state outside the dispatcher, the prober and the strategies
InitAux ==
    /\ health = IdleHealth
    /\ telemetry = NoTelemetry
    /\ pool = RegisteredPool
    /\ main = Running
    /\ locks = NoLocks
    /\ sink = [last |-> Alive, pending |-> {}]

StrategyKinds == {"round_robin", "least_connections", "weighted_round_robin", "random"}

Init ==
    /\ Alive \in [Servers -> BOOLEAN]
    /\ Connections = [s \in Servers |-> 0]
    /\ lbmu = <<"free", 0>>
    /\ strategy \in StrategyKinds
    /\ counter = 0
    /\ serverConnections = [s \in Servers |-> 0]
    /\ currentWeights = [k \in WeightDomain |-> 0]
    /\ disp = [d \in Dispatchers |-> IdleFrame]
    /\ hreq = IdleHandler
    /\ prober = IdleProber
    /\ started = 0
    /\ totalRequests = 0
    /\ now = 0
    /\ cb = ClosedBreaker
    /\ cache = <<>>
    /\ mlsel = NoSelection
    /\ scorer = Unreachable
    /\ nsel = 0
    /\ cacheMeta = <<>>
    /\ trial = NewTrial(<<>>)
    /\ InitAux

(* ------------------------ LoadBalancer.GetServer ----------------------- *)
\* lb.strategy.SelectServer(healthyServers): the choice and the strategy's
\* new state
SelectServer(servers, chosen) ==
    \/ /\ strategy = "round_robin"
       /\ chosen = RoundRobinSelect(servers, counter)
       /\ counter' = IntInc(counter)
       /\ UNCHANGED <<serverConnections, currentWeights>>
    \/ /\ strategy = "least_connections"
       /\ chosen = LeastConnectionsSelect(servers, serverConnections)
       /\ serverConnections' = [serverConnections EXCEPT ![chosen] = @ + 1]
       /\ UNCHANGED <<counter, currentWeights>>
    \/ /\ strategy = "weighted_round_robin"
       /\ chosen = WRRSelect(servers, currentWeights)
       /\ currentWeights' = WRRAfter(servers, currentWeights)
       /\ UNCHANGED <<counter, serverConnections>>
    \/ /\ strategy = "random"
       /\ chosen \in Range(servers)
       /\ UNCHANGED <<counter, serverConnections, currentWeights>>

\* the status ForwardRequest answers with when GetServer returns an error
NoServerStatus == StatusServiceUnavailable

\* GetServer up to the strategy's choice (lb.mu taken); with no alive server
\* it returns the error and ForwardRequest answers at once
GetServer(d) ==
    /\ disp[d].pc = "idle"
    /\ lbmu = <<"free", 0>>
    /\ started < MaxRequests
    /\ started' = started + 1
    /\ LET healthy == HealthyServers(Alive) IN
       IF Len(healthy) = 0
       THEN /\ disp' = [disp EXCEPT ![d] =
                  [@ EXCEPT !.pc = "done", !.status = NoServerStatus,
                            !.exit = "no_server",
                            !.rows = RecordRequestRows(0, FALSE)]]
            /\ totalRequests' = totalRequests + 1
            /\ UNCHANGED <<lbmu, counter, serverConnections, currentWeights>>
       ELSE /\ \E chosen \in Range(healthy) :
                 /\ SelectServer(healthy, chosen)
                 /\ disp' = [disp EXCEPT ![d] =
                       [@ EXCEPT !.pc = "selected", !.server = chosen,
                                 !.called = TRUE]]
            /\ lbmu' = <<"d", d>>
            /\ UNCHANGED totalRequests
    /\ UNCHANGED <<Alive, Connections, strategy, hreq, prober>>
    /\ UNCHANGED mlVars
    /\ UNCHANGED auxVars

\* GetServer, "selected.Connections++" and the deferred lb.mu.Unlock
Reserve(d) ==
    /\ disp[d].pc = "selected"
    /\ lbmu = <<"d", d>>
    /\ LET s == disp[d].server IN
       /\ Connections' = [Connections EXCEPT ![s] = @ + 1]
       /\ disp' = [disp EXCEPT ![d] =
             [@ EXCEPT !.pc = "reserved", !.nres = @ + 1]]
    /\ lbmu' = <<"free", 0>>
    /\ UNCHANGED <<Alive, strategy, counter, serverConnections, currentWeights,
                   hreq, prober, started, totalRequests>>
    /\ UNCHANGED mlVars
    /\ UNCHANGED auxVars

(* --------------------- LoadBalancer.ForwardRequest --------------------- *)
\* how many times the deferred release decrements Connections on the exit
\* path "how": a deferred call runs once on every return and while a panic
\* unwinds
\* (variant: a release written at the normal returns only, lost on a panic)
Released_NotOnPanic(how) == IF how = "panic" THEN 0 ELSE 1
Released(how) == 1

\* the rows ForwardRequest and RecordRequest add to the attempts table on
\* the exit path "how": the initial attempt (false) before Do, the failed
\* attempt after a transport error or the "successful attempt" (true) after
\* any response, then RecordRequest's InsertAttempt(success)
ForwardAttempts(how, success) ==
    IF how = "request_error" THEN <<success>>
    ELSE IF how = "transport_error" THEN <<FALSE, FALSE, success>>
    ELSE <<FALSE, TRUE, success>>

\* the deferred calls of ForwardRequest after a reservation: the release of
\* the connection slot, then Collector.RecordRequest; resp is the status of
\* the backend's response (0: none), st the status the caller gets
Return(d, resp, st, success, how) ==
    LET f == disp[d] IN
    /\ Connections' = [Connections EXCEPT ![f.server] = @ - Released(how)]
    /\ totalRequests' = totalRequests + 1
    /\ disp' = [disp EXCEPT ![d] =
          [f EXCEPT !.pc = "done", !.status = st, !.exit = how,
                    !.cancelled = FALSE,
                    !.nrel = @ + Released(how),
                    !.resp = resp,
                    !.attempts = ForwardAttempts(how, success),
                    !.rows = RecordRequestRows(ServerID(f.server), success)]]

\* http.NewRequest fails: 500, success = false
RequestError(d) ==
    /\ disp[d].pc = "reserved"
    /\ Return(d, 0, StatusInternalServerError, FALSE, "request_error")
    /\ UNCHANGED <<Alive, lbmu, strategy, counter, serverConnections,
                   currentWeights, hreq, prober, started>>
    /\ UNCHANGED mlVars
    /\ UNCHANGED auxVars

\* the initial InsertAttempt and http.DefaultClient.Do sending the request
Send(d) ==
    /\ disp[d].pc = "reserved"
    /\ disp' = [disp EXCEPT ![d] =
          [@ EXCEPT !.pc = "forwarding",
                    !.contacted = @ \cup {disp[d].server}]]
    /\ UNCHANGED <<Alive, Connections, lbmu, strategy, counter, serverConnections,
                   currentWeights, hreq, prober, started, totalRequests>>
    /\ UNCHANGED mlVars
    /\ UNCHANGED auxVars

\* the value the transport-error branch writes to server.Alive
DemotedAlive == FALSE

\* lb.servers after the transport-error branch: the server stays in the pool
\* (variant: the failed server is dropped from the pool)
PoolAfterDemotion_Removed(p, s) == SelectSeq(p, LAMBDA r : r.url # s)
PoolAfterDemotion(p, s) == p

\* Do returns an error: the server is marked down, a goroutine is started to
\* store the status, 502
TransportError(d) ==
    /\ disp[d].pc = "forwarding"
    /\ Alive' = [Alive EXCEPT ![disp[d].server] = DemotedAlive]
    /\ Return(d, 0, StatusBadGateway, FALSE, "transport_error")
    /\ UNCHANGED <<lbmu, strategy, counter, serverConnections,
                   currentWeights, hreq, prober, started>>
    /\ UNCHANGED mlVars
    /\ pool' = PoolAfterDemotion(pool, disp[d].server)
    /\ sink' = [sink EXCEPT !.pending = @ \cup {disp[d].server}]
    /\ UNCHANGED <<health, telemetry, main, locks>>

\* Do returns a response: success = StatusCode < 500, status copied
ResponseReceived(d) ==
    /\ disp[d].pc = "forwarding"
    /\ \E st \in BackendStatuses :
          Return(d, st, st, st < 500, "response")
    /\ UNCHANGED <<Alive, lbmu, strategy, counter, serverConnections,
                   currentWeights, hreq, prober, started>>
    /\ UNCHANGED mlVars
    /\ UNCHANGED auxVars

\* w.WriteHeader panics on a status line it rejects; the deferred calls run
\* while the panic unwinds and the Recover middleware answers 500
Panic(d) ==
    /\ disp[d].pc = "forwarding"
    /\ Return(d, InvalidStatus, StatusInternalServerError, InvalidStatus < 500, "panic")
    /\ UNCHANGED <<Alive, lbmu, strategy, counter, serverConnections,
                   currentWeights, hreq, prober, started>>
    /\ UNCHANGED mlVars
    /\ UNCHANGED auxVars

\* the caller goes away: r.Context() is cancelled; the outbound request was
\* built without that context and goes on
CancelInbound(d) ==
    /\ disp[d].pc \in {"selected", "reserved", "forwarding"}
    /\ ~disp[d].cancelled
    /\ disp' = [disp EXCEPT ![d] = [@ EXCEPT !.cancelled = TRUE]]
    /\ UNCHANGED <<Alive, Connections, lbmu, strategy, counter, serverConnections,
                   currentWeights, hreq, prober, started, totalRequests>>
    /\ UNCHANGED mlVars
    /\ UNCHANGED auxVars

\* the call frame is gone; the dispatcher can serve the next request
Finish(d) ==
    /\ disp[d].pc = "done"
    /\ disp' = [disp EXCEPT ![d] = IdleFrame]
    /\ UNCHANGED <<Alive, Connections, lbmu, strategy, counter, serverConnections,
                   currentWeights, hreq, prober, started, totalRequests>>
    /\ UNCHANGED mlVars
    /\ UNCHANGED auxVars

(* ------------------ Handler.HandleRequest (POST /request) -------------- *)
\* the servers HandleRequest posts the body to: its healthyServers
RequestTargets_All(alive) == Servers
RequestTargets(alive) == {s \in Servers : alive[s]}

\* GetAllServers (under lb.mu), the Alive filter, and the 503 or the fan-out
HandleRequestStart ==
    /\ hreq.pc = "idle"
    /\ lbmu = <<"free", 0>>
    /\ started < MaxRequests
    /\ started' = started + 1
    /\ LET targets == RequestTargets(Alive) IN
       IF targets = {}
       THEN hreq' = [hreq EXCEPT !.pc = "done", !.status = StatusServiceUnavailable]
       ELSE hreq' = [hreq EXCEPT !.pc = "fanout", !.targets = targets,
                                 !.pending = targets]
    /\ UNCHANGED <<Alive, Connections, lbmu, strategy, counter, serverConnections,
                   currentWeights, disp, prober, totalRequests>>
    /\ UNCHANGED mlVars
    /\ UNCHANGED auxVars

\* one goroutine of the fan-out: http.Post to s, RecordRequest, and the
\* entry in responses or failedServers
HandleRequestPost(s) ==
    /\ hreq.pc = "fanout"
    /\ s \in hreq.pending
    /\ \E ok \in BOOLEAN :
          hreq' = [hreq EXCEPT !.pending = @ \ {s},
                               !.responses = IF ok THEN @ \cup {s} ELSE @,
                               !.failed = IF ok THEN @ ELSE @ \cup {s}]
    /\ totalRequests' = totalRequests + 1
    /\ UNCHANGED <<Alive, Connections, lbmu, strategy, counter, serverConnections,
                   currentWeights, disp, prober, started>>
    /\ UNCHANGED mlVars
    /\ UNCHANGED auxVars

\* wg.Wait() returns and the aggregate is answered with 200
HandleRequestReply ==
    /\ hreq.pc = "fanout"
    /\ hreq.pending = {}
    /\ hreq' = [hreq EXCEPT !.pc = "done", !.status = StatusOK]
    /\ UNCHANGED <<Alive, Connections, lbmu, strategy, counter, serverConnections,
                   currentWeights, disp, prober, started, totalRequests>>
    /\ UNCHANGED mlVars
    /\ UNCHANGED auxVars

HandleRequestEnd ==
    /\ hreq.pc = "done"
    /\ hreq' = IdleHandler
    /\ UNCHANGED <<Alive, Connections, lbmu, strategy, counter, serverConnections,
                   currentWeights, disp, prober, started, totalRequests>>
    /\ UNCHANGED mlVars
    /\ UNCHANGED auxVars

(* ---------------- Handler.LoadBalancerHealthCheck (GET /health) ---------- *)
\* the status code of the answer
\* (variant: the handler always answers 200)
HealthStatus_AlwaysOK(healthy) == StatusOK
HealthStatus(healthy) ==
    IF healthy = {} THEN StatusServiceUnavailable ELSE StatusOK

\* GetAllServers: the slice of server pointers is copied under lb.mu; the
\* Server structs stay shared
HealthStart ==
    /\ health.pc = "idle"
    /\ lbmu = <<"free", 0>>
    /\ started < MaxRequests
    /\ started' = started + 1
    /\ health' = [IdleHealth EXCEPT !.pc = "loop", !.idx = 1, !.snap = Alive]
    /\ UNCHANGED <<Alive, Connections, lbmu, strategy, counter, serverConnections,
                   currentWeights, disp, hreq, prober, totalRequests>>
    /\ UNCHANGED mlVars
    /\ UNCHANGED <<telemetry, pool, main, locks, sink>>

\* one pass of the loop: server.Alive is read, the URL goes to healthyServers
\* or unhealthyServers and the value read to UpdateServerStatus; after the last server the status code is chosen and
\* the answer is written
HealthRead ==
    /\ health.pc = "loop"
    /\ LET s == ServerSeq[health.idx]
           healthy == IF Alive[s] THEN health.healthy \cup {s} ELSE health.healthy
           unhealthy == IF Alive[s] THEN health.unhealthy
                        ELSE health.unhealthy \cup {s}
       IN
       IF health.idx < NumServers
       THEN health' = [health EXCEPT !.idx = @ + 1, !.healthy = healthy,
                                     !.unhealthy = unhealthy]
       ELSE health' = [pc |-> "done", idx |-> 0, healthy |-> healthy,
                       unhealthy |-> unhealthy, status |-> HealthStatus(healthy),
                       snap |-> health.snap]
    /\ UNCHANGED <<Alive, Connections, lbmu, strategy, counter, serverConnections,
                   currentWeights, disp, hreq, prober, started, totalRequests>>
    /\ UNCHANGED mlVars
    /\ sink' = [sink EXCEPT !.last[ServerSeq[health.idx]] = Alive[ServerSeq[health.idx]]]
    /\ UNCHANGED <<telemetry, pool, main, locks>>

HealthEnd ==
    /\ health.pc = "done"
    /\ health' = IdleHealth
    /\ UNCHANGED <<Alive, Connections, lbmu, strategy, counter, serverConnections,
                   currentWeights, disp, hreq, prober, started, totalRequests>>
    /\ UNCHANGED mlVars
    /\ UNCHANGED <<telemetry, pool, main, locks, sink>>

(* ------------- Collector.RecordRequest: the success rate ---------------- *)
\* rows added to a table
AddRows(tbl, rows) ==
    <<tbl[1] + Cardinality({i \in DOMAIN rows : rows[i]}), tbl[2] + Len(rows)>>

\* calculateSuccessRate: the rows of the attempts table for the server in
\* the last 5 minutes (every row of a run is that recent), 1.0 if none
calculateSuccessRate(tbl) ==
    IF tbl[2] = 0 THEN <<1, 1>> ELSE <<tbl[1], tbl[2]>>

\* clamp(value, 0, 1)
clamp(rate) ==
    IF rate[1] < 0 THEN <<0, 1>>
    ELSE IF rate[1] > rate[2] THEN <<1, 1>> ELSE rate

\* the ways a request ends in a RecordRequest call for a server: the exit
\* paths of ForwardRequest and the goroutine of HandleRequest
RecordedOutcomes ==
    {<<"request_error", FALSE>>, <<"transport_error", FALSE>>,
     <<"response", TRUE>>, <<"response", FALSE>>,
     <<"broadcast", TRUE>>, <<"broadcast", FALSE>>}

\* the attempts rows written before RecordRequest is called: those of
\* ForwardRequest; HandleRequest writes none
AttemptsBefore(how, success) ==
    IF how = "broadcast" THEN <<>>
    ELSE LET a == ForwardAttempts(how, success) IN SubSeq(a, 1, Len(a) - 1)

\* one request for server s from its first attempts row to the end of
\* RecordRequest: the rate is computed and stored (InsertMetrics) before
\* RecordRequest's own InsertAttempt
RecordOutcome(s, how, success) ==
    /\ telemetry.n < MaxSamples
    /\ LET before == AddRows(telemetry.attempts[s], AttemptsBefore(how, success)) IN
       telemetry' =
          [n |-> telemetry.n + 1,
           attempts |-> [telemetry.attempts EXCEPT ![s] = AddRows(before, <<success>>)],
           outcomes |-> [telemetry.outcomes EXCEPT ![s] = AddRows(@, <<success>>)],
           rate |-> [telemetry.rate EXCEPT ![s] = clamp(calculateSuccessRate(before))]]
    /\ UNCHANGED lbVars
    /\ UNCHANGED mlVars
    /\ UNCHANGED <<health, pool, main, locks, sink>>

NextTelemetry ==
    \E s \in Servers : \E o \in RecordedOutcomes : RecordOutcome(s, o[1], o[2])

SpecTelemetry == Init /\ [][NextTelemetry]_vars

(* -------------- startHealthChecks / Server.checkServerHealth ----------- *)
\* the ticker fires: lb.mu is taken for the whole cycle, the first server's
\* Alive is read into wasAlive
ProberTick ==
    /\ prober.phase = "wait"
    /\ lbmu = <<"free", 0>>
    /\ lbmu' = <<"prober", 0>>
    /\ prober' = [prober EXCEPT !.phase = "check", !.idx = 1, !.i = 0,
                                !.wasAlive = Alive[ServerSeq[1]]]
    /\ UNCHANGED <<Alive, Connections, strategy, counter, serverConnections,
                   currentWeights, disp, hreq, started, totalRequests>>
    /\ UNCHANGED mlVars
    /\ UNCHANGED auxVars

\* checkServerHealth, one pass of the loop: "alive" on 200, "retry" while
\* attempts remain, "dead" after the last failed attempt
\* (variant: the server is declared dead one failed attempt earlier)
ProbeVerdict_OneShort(ok, i) ==
    IF ok THEN "alive"
    ELSE IF i < healthCheckRetries - 2 THEN "retry" ELSE "dead"
ProbeVerdict(ok, i) ==
    IF ok THEN "alive"
    ELSE IF i < healthCheckRetries - 1 THEN "retry" ELSE "dead"

\* startHealthChecks: "s.Alive = isAlive"
\* (variant: a server once alive is never marked down by the prober)
ProbedAlive_Sticky(wasAlive, isAlive) == wasAlive \/ isAlive
ProbedAlive(wasAlive, isAlive) == isAlive

\* startHealthChecks: Connections after "if !wasAlive && isAlive"
\* (variant: every server found alive is reset)
ProbedConnections_AlwaysReset(wasAlive, isAlive, conns) ==
    IF isAlive THEN 0 ELSE conns
ProbedConnections(wasAlive, isAlive, conns) ==
    IF ~wasAlive /\ isAlive THEN 0 ELSE conns

\* startHealthChecks: the status stored for the server after
\* "if wasAlive != isAlive { database.UpdateServerStatus(s.ID, isAlive) }"
ProbedStatus(wasAlive, isAlive, last) ==
    IF wasAlive # isAlive THEN isAlive ELSE last

\* the goroutine started by the transport-error branch of ForwardRequest:
\* database.UpdateServerStatus(server.ID, false)
StatusWrite(s) ==
    /\ s \in sink.pending
    /\ sink' = [last |-> [sink.last EXCEPT ![s] = FALSE], pending |-> sink.pending \ {s}]
    /\ UNCHANGED lbVars
    /\ UNCHANGED mlVars
    /\ UNCHANGED <<health, telemetry, pool, main, locks>>

\* one GET <server>/health of the cycle and what follows it: a retry after
\* 1s, or the verdict written to the server and the move to the next server
\* (or the end of the cycle and lb.mu.Unlock)
ProbeAttempt ==
    /\ prober.phase = "check"
    /\ \E ok \in BOOLEAN :
        LET s == ServerSeq[prober.idx]
            v == ProbeVerdict(ok, prober.i)
            isAlive == (v = "alive")
        IN
        IF v = "retry"
        THEN /\ prober' = [prober EXCEPT !.i = @ + 1]
             /\ UNCHANGED <<Alive, Connections, lbmu, sink>>
        ELSE /\ Alive' = [Alive EXCEPT ![s] = ProbedAlive(prober.wasAlive, isAlive)]
             /\ sink' = [sink EXCEPT !.last[s] = ProbedStatus(prober.wasAlive, isAlive, @)]
             /\ Connections' = [Connections EXCEPT ![s] =
                    ProbedConnections(prober.wasAlive, isAlive, @)]
             /\ IF prober.idx < NumServers
                THEN /\ prober' = [phase |-> "check", idx |-> prober.idx + 1,
                                   i |-> 0, wasAlive |-> Alive[ServerSeq[prober.idx + 1]],
                                   last |-> s, got200 |-> ok,
                                   fails |-> IF ok THEN prober.i ELSE prober.i + 1]
                     /\ UNCHANGED lbmu
                ELSE /\ prober' = [phase |-> "wait", idx |-> 0, i |-> 0,
                                   wasAlive |-> FALSE,
                                   last |-> s, got200 |-> ok,
                                   fails |-> IF ok THEN prober.i ELSE prober.i + 1]
                     /\ lbmu' = <<"free", 0>>
    /\ UNCHANGED <<strategy, counter, serverConnections, currentWeights, disp,
                   hreq, started, totalRequests>>
    /\ UNCHANGED mlVars
    /\ UNCHANGED <<health, telemetry, pool, main, locks>>

Next ==
    \/ \E d \in Dispatchers : GetServer(d)
    \/ \E d \in Dispatchers : Reserve(d)
    \/ \E d \in Dispatchers : RequestError(d)
    \/ \E d \in Dispatchers : Send(d)
    \/ \E d \in Dispatchers : TransportError(d)
    \/ \E d \in Dispatchers : ResponseReceived(d)
    \/ \E d \in Dispatchers : Panic(d)
    \/ \E d \in Dispatchers : CancelInbound(d)
    \/ \E d \in Dispatchers : Finish(d)
    \/ \E s \in Servers : StatusWrite(s)
    \/ ProberTick
    \/ ProbeAttempt

Spec == Init /\ [][Next]_vars

\* the steps the process takes on its own: a dispatch goes on to its
\* increment and to sending, a finished call frame is left, a probe (3s
\* client timeout, 1s pause) comes to its verdict; whether and when a backend
\* answers a forwarded request is not up to the process
Fairness ==
    /\ \A d \in Dispatchers : WF_vars(Reserve(d))
    /\ \A d \in Dispatchers : WF_vars(Send(d))
    /\ \A d \in Dispatchers : WF_vars(Finish(d))
    /\ WF_vars(ProbeAttempt)

SpecLive == Init /\ [][Next]_vars /\ Fairness

(* ------------------------- the mutexes --------------------------------- *)
\* LoadBalancer.mu; Server.mu of server s; the mutex of the strategy in use
\* (RoundRobinStrategy.mu, LeastConnectionsStrategy.mu,
\* WeightedRoundRobinStrategy.mu); CircuitBreaker.mu of the predictive
\* strategy; the lock inside the lru.Cache
RegistryMu == <<"registry", 0>>
BackendMu(s) == <<"backend", s>>
StrategyMu == <<"strategy", 0>>
BreakerMu == <<"strategy", 1>>
CacheMu == <<"cache", 0>>

Lock(l) == <<"lock", l>>
Unlock(l) == <<"unlock", l>>
Locked(l) == <<Lock(l), Unlock(l)>>

\* GetServer with a strategy of strategies.go choosing s: lb.mu is held to
\* the return, SelectServer locks the strategy's mutex, then
\* selected.Connections++ under selected.mu
\* (variant: the server's mutex is taken first, lb.mu inside it)
GetServerLocks_BackendFirst(s) ==
    <<Lock(BackendMu(s)), Lock(RegistryMu)>> \o Locked(StrategyMu)
        \o <<Unlock(RegistryMu), Unlock(BackendMu(s))>>
GetServerLocks(s) ==
    <<Lock(RegistryMu)>> \o Locked(StrategyMu) \o Locked(BackendMu(s))
        \o <<Unlock(RegistryMu)>>

\* ForwardRequest: GetServer, on a transport error server.Alive = false
\* under server.mu, and the deferred Connections-- under server.mu
ForwardLocks(s, failed) ==
    GetServerLocks(s) \o (IF failed THEN Locked(BackendMu(s)) ELSE <<>>)
        \o Locked(BackendMu(s))

\* server.CanHandleRequest() for the candidates from the i-th on
RECURSIVE CanHandleLocks(_)
CanHandleLocks(i) ==
    IF i > NumServers THEN <<>>
    ELSE Locked(BackendMu(ServerSeq[i])) \o CanHandleLocks(i + 1)

\* MLStrategy.SelectServer by the path it takes: breaker open; cache hit;
\* scorer answer (cache.Add, RecordSuccess, the scan); scorer failure
\* (RecordFailure, the fallback)
MLPaths == {"open", "cache", "scorer", "failure"}
MLSelectLocks(path) ==
    IF path = "open" THEN Locked(BreakerMu) \o Locked(StrategyMu)
    ELSE IF path = "cache"
    THEN Locked(BreakerMu) \o Locked(CacheMu) \o CanHandleLocks(1)
    ELSE IF path = "scorer"
    THEN Locked(BreakerMu) \o Locked(CacheMu) \o Locked(CacheMu)
            \o Locked(BreakerMu) \o CanHandleLocks(1)
    ELSE Locked(BreakerMu) \o Locked(CacheMu) \o Locked(BreakerMu)
            \o Locked(StrategyMu)

\* GetServer and the deferred release with lb.strategy an MLStrategy
MLForwardLocks(s, path) ==
    <<Lock(RegistryMu)>> \o MLSelectLocks(path) \o Locked(BackendMu(s))
        \o <<Unlock(RegistryMu)>> \o Locked(BackendMu(s))

\* one cycle of startHealthChecks: lb.mu around the loop, s.mu for the reset
\* of every server of "recovered", from the i-th server on
RECURSIVE ProbeLocks(_, _)
ProbeLocks(recovered, i) ==
    IF i > NumServers THEN <<>>
    ELSE (IF ServerSeq[i] \in recovered THEN Locked(BackendMu(ServerSeq[i])) ELSE <<>>)
            \o ProbeLocks(recovered, i + 1)

ProbeCycleLocks(recovered) ==
    <<Lock(RegistryMu)>> \o ProbeLocks(recovered, 1) \o <<Unlock(RegistryMu)>>

\* GetAllServers, as called by HandleRequest and LoadBalancerHealthCheck
SnapshotLocks == Locked(RegistryMu)

\* what a goroutine can be started to do
LockPrograms ==
    {ForwardLocks(s, f) : s \in Servers, f \in BOOLEAN}
    \cup {MLForwardLocks(s, path) : s \in Servers, path \in MLPaths}
    \cup {ProbeCycleLocks(r) : r \in SUBSET Servers}
    \cup {SnapshotLocks}

HeldByAny == UNION {locks.held[t] : t \in Threads}

\* goroutine t is at a Lock call
AtLock(t) ==
    /\ locks.pc[t] < Len(locks.prog[t])
    /\ locks.prog[t][locks.pc[t] + 1][1] = "lock"

NextLockOf(t) == locks.prog[t][locks.pc[t] + 1][2]

\* a request arrives or the ticker fires: goroutine t starts
Spawn(t, p) ==
    /\ locks.prog[t] = <<>>
    /\ locks' = [locks EXCEPT !.prog[t] = p, !.pc[t] = 0]
    /\ UNCHANGED lbVars
    /\ UNCHANGED mlVars
    /\ UNCHANGED <<health, telemetry, pool, main, sink>>

\* sync.Mutex: Lock returns when nobody holds the mutex; Unlock frees it
LockStep(t) ==
    /\ locks.pc[t] < Len(locks.prog[t])
    /\ LET l == NextLockOf(t) IN
       IF AtLock(t)
       THEN /\ l \notin HeldByAny
            /\ locks' = [locks EXCEPT !.pc[t] = @ + 1, !.held[t] = @ \cup {l}]
       ELSE locks' = [locks EXCEPT !.pc[t] = @ + 1, !.held[t] = @ \ {l}]
    /\ UNCHANGED lbVars
    /\ UNCHANGED mlVars
    /\ UNCHANGED <<health, telemetry, pool, main, sink>>

\* the goroutine returns
Retire(t) ==
    /\ locks.prog[t] # <<>>
    /\ locks.pc[t] = Len(locks.prog[t])
    /\ locks' = [locks EXCEPT !.prog[t] = <<>>, !.pc[t] = 0, !.held[t] = {}]
    /\ UNCHANGED lbVars
    /\ UNCHANGED mlVars
    /\ UNCHANGED <<health, telemetry, pool, main, sink>>

InitLocks ==
    /\ Init
    /\ strategy = "round_robin"
    /\ \A s \in Servers : Alive[s]

NextLocks ==
    \/ \E t \in Threads : \E p \in LockPrograms : Spawn(t, p)
    \/ \E t \in Threads : LockStep(t)
    \/ \E t \in Threads : Retire(t)

SpecLocks == InitLocks /\ [][NextLocks]_vars

(* ------------------------------ main() --------------------------------- *)
\* the process before main() runs; the store answers or does not
InitBoot ==
    /\ Alive = [s \in Servers |-> TRUE]
    /\ Connections = [s \in Servers |-> 0]
    /\ lbmu = <<"free", 0>>
    /\ strategy \in StrategyKinds
    /\ counter = 0
    /\ serverConnections = [s \in Servers |-> 0]
    /\ currentWeights = [k \in WeightDomain |-> 0]
    /\ disp = [d \in Dispatchers |-> IdleFrame]
    /\ hreq = IdleHandler
    /\ prober = IdleProber
    /\ started = 0
    /\ totalRequests = 0
    /\ now = 0
    /\ cb = ClosedBreaker
    /\ cache = <<>>
    /\ mlsel = NoSelection
    /\ scorer = Unreachable
    /\ nsel = 0
    /\ cacheMeta = <<>>
    /\ trial = NewTrial(<<>>)
    /\ health = IdleHealth
    /\ telemetry = NoTelemetry
    /\ pool = <<>>
    /\ locks = NoLocks
    /\ sink = [last |-> Alive, pending |-> {}]
    /\ main \in {[pc |-> "boot", store |-> st] : st \in {"up", "down"}}

\* main(): database.InitDB, and log.Fatalf if it fails; else the strategy and
\* the load balancer are built and the server listens
Main ==
    /\ main.pc = "boot"
    /\ IF main.store = "down"
       THEN /\ main' = [main EXCEPT !.pc = "exited"]
            /\ UNCHANGED pool
       ELSE /\ main' = [main EXCEPT !.pc = "running"]
            /\ pool' = RegisteredPool
    /\ UNCHANGED lbVars
    /\ UNCHANGED mlVars
    /\ UNCHANGED <<health, telemetry, locks, sink>>

\* a running process dispatches and probes
Serve ==
    /\ main.pc = "running"
    /\ Next

NextBoot ==
    \/ Main
    \/ Serve

SpecBoot == InitBoot /\ [][NextBoot]_vars

\* the handlers routed at POST /request and GET /health, next to the prober
NextRequest ==
    \/ HandleRequestStart
    \/ \E s \in Servers : HandleRequestPost(s)
    \/ HandleRequestReply
    \/ HandleRequestEnd
    \/ HealthStart
    \/ HealthRead
    \/ HealthEnd
    \/ ProberTick
    \/ ProbeAttempt

SpecRequest == Init /\ [][NextRequest]_vars

(* ---------------------------------------------------------------------- *)
(* MLStrategy (strategies_ml.go)                                          *)
(* ---------------------------------------------------------------------- *)
ScoreVals == {1, 9}
maxAttempts == 3

\* Collector.GetCurrentCPUUsage / GetCurrentMemoryUsage: the gauge of the
\* server, which no code path ever sets
GetCurrentCPUUsage(id) == 0
GetCurrentMemoryUsage(id) == 0

\* generateCacheKey: per server "%d-%.2f-%.2f" of ID, cpu and memory
\* (variant: the server's ID is left out of the key)
generateCacheKey_NoID(servers) ==
    [i \in 1..Len(servers) |->
        <<0, GetCurrentCPUUsage(ServerID(servers[i])),
          GetCurrentMemoryUsage(ServerID(servers[i]))>>]
generateCacheKey(servers) ==
    [i \in 1..Len(servers) |->
        <<ServerID(servers[i]), GetCurrentCPUUsage(ServerID(servers[i])),
          GetCurrentMemoryUsage(ServerID(servers[i]))>>]

\* CircuitBreaker.IsOpen
\* (variant: a cool-down of a third of the configured one)
IsOpen_ShortCoolDown(b, t) == b.isOpen /\ t - b.lastFailure < CoolDown \div 3
IsOpen(b, t) == b.isOpen /\ t - b.lastFailure < CoolDown

\* CircuitBreaker.RecordFailure
\* (variant: the failure time is not refreshed)
RecordFailure_KeepTime(b, t) == [isOpen |-> TRUE, lastFailure |-> b.lastFailure]
RecordFailure(b, t) == [isOpen |-> TRUE, lastFailure |-> t]

\* CircuitBreaker.RecordSuccess
RecordSuccess(b) == [b EXCEPT !.isOpen = FALSE]

\* Server.CanHandleRequest
CanHandleRequest(s, conns) == conns[s] < Capacity(s) * 2

\* the loop "score < bestScore && server.CanHandleRequest()" from position i
\* on; NoServer stands for a nil bestServer
RECURSIVE BestFrom(_, _, _, _, _, _)
BestFrom(servers, predictions, conns, i, best, bestScore) ==
    IF i > Len(servers) THEN best
    ELSE IF (best = NoServer \/ predictions[i] < bestScore)
            /\ CanHandleRequest(servers[i], conns)
         THEN BestFrom(servers, predictions, conns, i + 1, servers[i], predictions[i])
         ELSE BestFrom(servers, predictions, conns, i + 1, best, bestScore)

BestServer(servers, predictions, conns) ==
    BestFrom(servers, predictions, conns, 1, NoServer, 0)

\* how the scorer endpoint can behave: it fails, or answers 200 with a JSON
\* object holding, under "scores" or "predictions", one score per server of
\* the request, one score too few (delta -1) or one too many (delta 1)
\* ("recovering": the first request of a selection is refused, every later
\* one would be answered with a valid vector)
ScorerBehaviours ==
    {[kind |-> k] : k \in {"timeout", "unreachable", "non200", "malformed",
                            "recovering"}}
    \cup {[kind |-> "ok", field |-> f, delta |-> 0, scoreOf |-> sc] :
              f \in {"scores", "predictions"}, sc \in [Servers -> ScoreVals]}
    \cup {[kind |-> "ok", field |-> f, delta |-> dl, scoreOf |-> [s \in Servers |-> 1]] :
              f \in {"scores", "predictions"}, dl \in {-1, 1}}

\* the score vector of a 200 answer to a request about servers
ScorerVec(b, servers) ==
    LET n == Len(servers) IN
    [i \in 1..(n + b.delta) |-> b.scoreOf[servers[IF i <= n THEN i ELSE n]]]

\* the field of the response body the client decodes into result.Predictions
PredictionsField == "predictions"

\* one call of the closure passed to retry: attempt number a (from 1) under
\* the context created before the first attempt with a 100ms deadline; the
\* retries start after a 100ms sleep, when that deadline has passed
AttemptResult(a, r, servers) ==
    IF a > 1 THEN [err |-> TRUE, predictions |-> <<>>]
    ELSE IF r.kind # "ok" THEN [err |-> TRUE, predictions |-> <<>>]
    ELSE [err |-> FALSE,
          predictions |-> IF r.field = PredictionsField
                          THEN ScorerVec(r, servers) ELSE <<>>]

\* retry(3, 100ms, fn): the attempts made and the final outcome
RECURSIVE Retry(_, _, _)
Retry(a, r, servers) ==
    LET res == AttemptResult(a, r, servers) IN
    IF ~res.err THEN [calls |-> a, err |-> FALSE, predictions |-> res.predictions]
    ELSE IF a = maxAttempts THEN [calls |-> a, err |-> TRUE, predictions |-> <<>>]
    ELSE Retry(a + 1, r, servers)

CacheHit(c, key) == key \in DOMAIN c

CacheAdd(c, key, v) ==
    [k \in DOMAIN c \cup {key} |-> IF k = key THEN v ELSE c[k]]

\* the non-empty candidate lists GetServer can pass: pool order, alive only
CandidateLists ==
    {FilterSeq(ServerSeq, a) : a \in [Servers -> BOOLEAN]} \ {<<>>}

\* MLStrategy.SelectServer: the result and the new strategy state, with the
\* scorer behaving as r
MLOutcome(servers, conns, r) ==
    LET key == generateCacheKey(servers)
        hit == CacheHit(cache, key) /\ Len(cache[key]) = Len(servers)
        cached == IF hit THEN BestServer(servers, cache[key], conns) ELSE NoServer
        fb == WRRSelect(servers, currentWeights)
        fbw == WRRAfter(servers, currentWeights)
        rt == Retry(1, r, servers)
        best == BestServer(servers, rt.predictions, conns)
    IN
    IF IsOpen(cb, now)
    THEN [path |-> "open", chosen |-> fb, calls |-> 0, cw |-> fbw,
          cb |-> cb, cache |-> cache]
    ELSE IF cached # NoServer
    THEN [path |-> "cache", chosen |-> cached, calls |-> 0, cw |-> currentWeights,
          cb |-> cb, cache |-> cache]
    ELSE IF rt.err \/ Len(rt.predictions) # Len(servers)
    THEN [path |-> "failure", chosen |-> fb, calls |-> rt.calls, cw |-> fbw,
          cb |-> RecordFailure(cb, now), cache |-> cache]
    ELSE IF best # NoServer
    THEN [path |-> "scorer", chosen |-> best, calls |-> rt.calls,
          cw |-> currentWeights, cb |-> RecordSuccess(cb),
          cache |-> CacheAdd(cache, key, rt.predictions)]
    ELSE [path |-> "overloaded", chosen |-> fb, calls |-> rt.calls, cw |-> fbw,
          cb |-> RecordSuccess(cb),
          cache |-> CacheAdd(cache, key, rt.predictions)]

\* GetServer with lb.strategy an MLStrategy: the alive servers go to
\* SelectServer and the chosen server's Connections is incremented
GetServerML ==
    /\ strategy = "ml"
    /\ nsel < MaxSelections
    /\ \E servers \in CandidateLists :
          LET o == MLOutcome(servers, Connections, scorer) IN
          /\ mlsel' = [path |-> o.path, servers |-> servers, chosen |-> o.chosen,
                       calls |-> o.calls]
          /\ cacheMeta' = IF o.cache = cache THEN cacheMeta
                          ELSE CacheAdd(cacheMeta, generateCacheKey(servers),
                                        [servers |-> servers, at |-> now])
          /\ currentWeights' = o.cw
          /\ cb' = o.cb
          /\ cache' = o.cache
          /\ Connections' = [Connections EXCEPT ![o.chosen] = @ + 1]
    /\ nsel' = nsel + 1
    /\ UNCHANGED <<Alive, lbmu, strategy, counter, serverConnections, disp, hreq,
                   prober, started, totalRequests, now, scorer, trial>>
    /\ UNCHANGED auxVars

\* ForwardRequest's deferred release of a slot reserved earlier
ReleaseML(s) ==
    /\ strategy = "ml"
    /\ Connections[s] > 0
    /\ Connections' = [Connections EXCEPT ![s] = @ - 1]
    /\ UNCHANGED <<Alive, lbmu, strategy, counter, serverConnections,
                   currentWeights, disp, hreq, prober, started, totalRequests>>
    /\ UNCHANGED mlVars
    /\ UNCHANGED auxVars

\* time passes
Tick ==
    /\ now + TickStep <= MaxTime
    /\ now' = now + TickStep
    /\ UNCHANGED lbVars
    /\ UNCHANGED auxVars
    /\ UNCHANGED <<cb, cache, mlsel, scorer, nsel, cacheMeta, trial>>

\* the scorer endpoint changes its behaviour
ScorerChange ==
    /\ strategy = "ml"
    /\ \E b \in ScorerBehaviours \ {scorer} : scorer' = b
    /\ UNCHANGED lbVars
    /\ UNCHANGED auxVars
    /\ UNCHANGED <<now, cb, cache, mlsel, nsel, cacheMeta, trial>>

InitML ==
    /\ Alive = [s \in Servers |-> TRUE]
    /\ Connections = [s \in Servers |-> 0]
    /\ lbmu = <<"free", 0>>
    /\ strategy = "ml"
    /\ counter = 0
    /\ serverConnections = [s \in Servers |-> 0]
    /\ currentWeights = [k \in WeightDomain |-> 0]
    /\ disp = [d \in Dispatchers |-> IdleFrame]
    /\ hreq = IdleHandler
    /\ prober = IdleProber
    /\ started = 0
    /\ totalRequests = 0
    /\ now = 0
    /\ cb = ClosedBreaker
    /\ cache = <<>>
    /\ mlsel = NoSelection
    /\ scorer \in ScorerBehaviours
    /\ nsel = 0
    /\ cacheMeta = <<>>
    /\ trial = NewTrial(<<>>)
    /\ InitAux

NextML ==
    \/ GetServerML
    \/ \E s \in Servers : ReleaseML(s)
    \/ Tick
    \/ ScorerChange

SpecML == InitML /\ [][NextML]_vars

(* ---------------------------------------------------------------------- *)
(* A strategy called on its own: consecutive SelectServer calls on one    *)
(* fixed list of servers (src/test/loadbalancer_test.go)                   *)
(* ---------------------------------------------------------------------- *)
MaxTrial == 12

\* the lists a trial can run on: the alive subsets of server1..server3 in
\* pool order, the empty list included
TrialLists == {FilterSeq(WeightedServers, a) : a \in [WeightKeys -> BOOLEAN]}

\* SelectServer on an empty list: round-robin divides by len(servers) = 0,
\* least-connections and weighted round-robin index servers[0] (the latter
\* after its first loop has raised the current weights), random calls
\* rand.Intn(0); each of them panics
SelectServerEmpty ==
    /\ currentWeights' = IF strategy = "weighted_round_robin"
                         THEN WRRIncrease(currentWeights) ELSE currentWeights
    /\ UNCHANGED <<counter, serverConnections>>

\* round-robin on a counter below 0: servers[r.counter%len(servers)] has a
\* negative index and panics before r.counter++ is reached, so the counter
\* keeps its value
RoundRobinPanics(servers) ==
    /\ strategy = "round_robin"
    /\ servers # <<>>
    /\ RoundRobinSelect(servers, counter) = NoServer

\* one SelectServer call of the trial
TrialSelect ==
    /\ strategy \in StrategyKinds
    /\ ~trial.failed
    /\ trial.n < MaxTrial
    /\ IF trial.servers = <<>>
       THEN /\ SelectServerEmpty
            /\ trial' = [trial EXCEPT !.n = @ + 1, !.failed = TRUE]
       ELSE IF RoundRobinPanics(trial.servers)
       THEN /\ UNCHANGED <<counter, serverConnections, currentWeights>>
            /\ trial' = [trial EXCEPT !.n = @ + 1, !.failed = TRUE]
       ELSE \E chosen \in WeightKeys :
               /\ SelectServer(trial.servers, chosen)
               /\ trial' = [trial EXCEPT !.n = @ + 1, !.last = chosen,
                                         !.count[chosen] = @ + 1]
    /\ UNCHANGED <<Alive, Connections, lbmu, strategy, disp, hreq, prober,
                   started, totalRequests>>
    /\ UNCHANGED <<now, cb, cache, mlsel, scorer, nsel, cacheMeta>>
    /\ UNCHANGED auxVars

\* a fresh strategy object and the list it will be called on
InitTrial ==
    /\ Alive = [s \in Servers |-> TRUE]
    /\ Connections = [s \in Servers |-> 0]
    /\ lbmu = <<"free", 0>>
    /\ strategy \in StrategyKinds
    /\ counter = 0
    /\ serverConnections = [s \in WeightDomain |-> 0]
    /\ currentWeights = [k \in WeightDomain |-> 0]
    /\ disp = [d \in Dispatchers |-> IdleFrame]
    /\ hreq = IdleHandler
    /\ prober = IdleProber
    /\ started = 0
    /\ totalRequests = 0
    /\ now = 0
    /\ cb = ClosedBreaker
    /\ cache = <<>>
    /\ mlsel = NoSelection
    /\ scorer = Unreachable
    /\ nsel = 0
    /\ cacheMeta = <<>>
    /\ trial \in {NewTrial(l) : l \in TrialLists}
    /\ InitAux

NextTrial == TrialSelect

SpecTrial == InitTrial /\ [][NextTrial]_vars

\* a round-robin strategy that has served all but the last WrapLead values of
\* its counter, and the list it will be called on next
WrapLead == 3

InitWrap ==
    /\ Alive = [s \in Servers |-> TRUE]
    /\ Connections = [s \in Servers |-> 0]
    /\ lbmu = <<"free", 0>>
    /\ strategy = "round_robin"
    /\ counter \in {MaxInt - j : j \in 0..WrapLead}
    /\ serverConnections = [s \in WeightDomain |-> 0]
    /\ currentWeights = [k \in WeightDomain |-> 0]
    /\ disp = [d \in Dispatchers |-> IdleFrame]
    /\ hreq = IdleHandler
    /\ prober = IdleProber
    /\ started = 0
    /\ totalRequests = 0
    /\ now = 0
    /\ cb = ClosedBreaker
    /\ cache = <<>>
    /\ mlsel = NoSelection
    /\ scorer = Unreachable
    /\ nsel = 0
    /\ cacheMeta = <<>>
    /\ trial \in {NewTrial(l) : l \in TrialLists}
    /\ InitAux

SpecWrap == InitWrap /\ [][NextTrial]_vars

\* every strategy: the four of strategies.go on their own, fresh or (for
\* round-robin) near the highest value of the counter, and MLStrategy in
\* GetServer
InitStrategy == InitTrial \/ InitML \/ InitWrap

NextStrategy ==
    \/ TrialSelect
    \/ GetServerML
    \/ \E s \in Servers : ReleaseML(s)
    \/ Tick
    \/ ScorerChange

SpecStrategy == InitStrategy /\ [][NextStrategy]_vars

(* ====================================================================== *)
(* Properties                                                             *)
(* ====================================================================== *)

\* C1: when a dispatch ends, the reservation GetServer made for it has been
\* released exactly once, whatever the exit path (request-construction
\* error, transport error, response, panic; a cancelled caller changes
\* nothing); a dispatch that reserved nothing releases nothing, and no
\* release happens before the dispatch ends.
C1_ReserveMatchedByRelease ==
    \A d \in Dispatchers :
        /\ disp[d].nres <= 1
        /\ disp[d].pc = "done" => disp[d].nrel = disp[d].nres
        /\ disp[d].pc # "done" => disp[d].nrel = 0
        /\ disp[d].pc \in {"reserved", "forwarding"} => disp[d].nres = 1
        /\ (disp[d].pc = "done" /\ disp[d].exit # "no_server") => disp[d].nres = 1

C1_Witness ==
    \E d \in Dispatchers :
        /\ disp[d].pc = "done"
        /\ disp[d].exit = "panic"
        /\ disp[d].nres = 1
        /\ disp[d].nrel = 1

\* the dispatches that hold a reservation on s: reserved and not yet released
LiveReservations(s) ==
    {d \in Dispatchers : disp[d].server = s /\ disp[d].pc \in {"reserved", "forwarding"}}

\* C2: every backend's Connections is >= 0 and equals the number of
\* dispatches that have reserved it and not yet released it.
C2_InFlightIsLiveReservations ==
    \A s \in Servers :
        /\ Connections[s] >= 0
        /\ Connections[s] = Cardinality(LiveReservations(s))

\* C3: a POST /request reaches at most one backend, and exactly one once it
\* has been answered from a backend.
C3_RequestReachesOneBackend ==
    /\ Cardinality(hreq.targets \ hreq.pending) <= 1
    /\ (hreq.pc = "done" /\ hreq.status = StatusOK)
          => Cardinality(hreq.responses \cup hreq.failed) = 1

\* C4: a dispatch whose forward fails at transport level answers 502, leaves
\* the backend not alive, takes back its own increment of Connections, and
\* leaves exactly one outcome record, with success = false, for that backend.
C4_TransportFailure ==
    [][\A d \in Dispatchers :
          (disp[d].pc = "forwarding" /\ disp'[d].pc = "done"
             /\ disp'[d].exit = "transport_error")
          => LET s == disp[d].server IN
             /\ disp'[d].status = StatusBadGateway
             /\ ~Alive'[s]
             /\ Connections'[s] = Connections[s] - 1
             /\ disp'[d].rows = << <<ServerID(s), FALSE>> >>]_vars

\* C5: a dispatch that finds no backend alive answers 503 at once; the
\* strategy is not called, no backend is contacted, and no backend's
\* Connections or Alive changes.
C5_NoLiveBackend ==
    [][\A d \in Dispatchers :
          (disp[d].pc = "idle" /\ disp'[d].pc # "idle" /\ \A s \in Servers : ~Alive[s])
          => /\ disp'[d].pc = "done"
             /\ disp'[d].status = StatusServiceUnavailable
             /\ ~disp'[d].called
             /\ disp'[d].contacted = {}
             /\ disp'[d].nres = 0
             /\ UNCHANGED <<Alive, Connections, counter, serverConnections,
                            currentWeights>>]_vars

C5_Witness ==
    \E d \in Dispatchers :
        /\ disp[d].pc = "done"
        /\ disp[d].exit = "no_server"
        /\ disp[d].status = StatusServiceUnavailable
        /\ \A s \in Servers : ~Alive[s]

\* C6: when the prober concludes its check of a backend, a 200 answer leaves
\* the backend alive, and a check without a 200 answer ends exactly at the
\* third consecutive failed probe and leaves the backend not alive.
C6_ProbeVerdictWritten ==
    [][(prober.phase = "check" /\ (prober'.phase = "wait" \/ prober'.idx # prober.idx))
          => LET s == ServerSeq[prober.idx] IN
             /\ prober'.last = s
             /\ prober'.got200 => Alive'[s]
             /\ ~prober'.got200 => (~Alive'[s] /\ prober.i + 1 = 3)]_vars

C6_Witness ==
    /\ prober.last # NoServer
    /\ ~prober.got200
    /\ ~Alive[prober.last]
    /\ \E d \in Dispatchers : disp[d].server = prober.last /\ disp[d].pc = "forwarding"

\* the breaker is open and its cool-down of 30s has not elapsed
WithinCoolDown == cb.isOpen /\ now < cb.lastFailure + 30

\* C7: a predictive selection issued while a recorded scorer failure is less
\* than 30s old makes no call to the scorer and returns what the fallback
\* (weighted round-robin) returns.
C7_OpenBreakerUsesFallback ==
    [][(nsel' = nsel + 1 /\ WithinCoolDown)
          => /\ mlsel'.calls = 0
             /\ mlsel'.chosen = WRRSelect(mlsel'.servers, currentWeights)
             /\ currentWeights' = WRRAfter(mlsel'.servers, currentWeights)
             /\ cb' = cb]_vars

C7_Witness ==
    /\ mlsel.path = "open"
    /\ mlsel.calls = 0
    /\ cb.isOpen
    /\ now > cb.lastFailure

\* the scorer answers as its contract says: 200, {"scores": [...]}, one
\* score per candidate
ScorerAnswersScores ==
    scorer.kind = "ok" /\ scorer.field = "scores" /\ scorer.delta = 0

\* C8: after a scorer failure the next selection within the cool-down uses
\* the fallback; once the cool-down has elapsed, one selection whose scorer
\* call is answered closes the breaker, and while the breaker is closed
\* every selection consults the cache or the scorer.
C8_BreakerCloses ==
    [][(nsel' = nsel + 1)
          => /\ WithinCoolDown => mlsel'.path = "open"
             /\ (cb.isOpen /\ ~WithinCoolDown /\ mlsel'.calls > 0 /\ ScorerAnswersScores)
                   => ~cb'.isOpen
             /\ ~cb.isOpen => mlsel'.path # "open"]_vars

\* the scorer fails: timeout, unreachable, non-200, malformed body, or a
\* vector whose length differs from the number of candidates
ScorerFails ==
    \/ scorer.kind \in {"timeout", "unreachable", "non200", "malformed"}
    \/ scorer.kind = "ok" /\ scorer.delta # 0

\* C9: a predictive selection that consults the scorer and gets a failure
\* opens the breaker with lastFailure = now and returns the fallback's
\* choice, a member of the candidate list.
C9_ScorerFailureFallsBack ==
    [][(nsel' = nsel + 1 /\ mlsel'.calls > 0 /\ ScorerFails)
          => /\ cb'.isOpen
             /\ cb'.lastFailure = now
             /\ mlsel'.chosen = WRRSelect(mlsel'.servers, currentWeights)
             /\ mlsel'.chosen \in Range(mlsel'.servers)]_vars

C9_Witness ==
    /\ mlsel.path = "failure"
    /\ scorer.kind = "ok"
    /\ scorer.delta = 1
    /\ scorer.field = "predictions"
    /\ cb.isOpen
    /\ cb.lastFailure = now
    /\ now > 0

\* the admissible candidates (Connections < 2 * Capacity) of lowest score
MinAdmissible(servers, vec, conns) ==
    LET adm == {i \in 1..Len(servers) : conns[servers[i]] < 2 * Capacity(servers[i])} IN
    {servers[i] : i \in {j \in adm : \A k \in adm : vec[j] <= vec[k]}}

\* C10: with the breaker closed, a selection whose scorer call is answered
\* {"scores": [s_1..s_n]} for n candidates returns an admissible candidate
\* of minimal score (the fallback's choice if none is admissible), leaves the
\* breaker closed and stores the vector in the cache.
C10_ScoresSelectMinimum ==
    [][(nsel' = nsel + 1 /\ ~cb.isOpen /\ mlsel'.calls > 0 /\ ScorerAnswersScores)
          => LET servers == mlsel'.servers
                 vec == [i \in 1..Len(servers) |-> scorer.scoreOf[servers[i]]]
                 best == MinAdmissible(servers, vec, Connections)
             IN
             /\ IF best # {} THEN mlsel'.chosen \in best
                ELSE mlsel'.chosen = WRRSelect(servers, currentWeights)
             /\ ~cb'.isOpen
             /\ generateCacheKey(servers) \in DOMAIN cache'
             /\ cache'[generateCacheKey(servers)] = vec]_vars

\* the breaker lets the selection through and the cache holds a vector of
\* the right length under the key of the candidate list
UsableCacheEntry(servers) ==
    /\ ~(cb.isOpen /\ now < cb.lastFailure + 30)
    /\ generateCacheKey(servers) \in DOMAIN cache
    /\ Len(cache[generateCacheKey(servers)]) = Len(servers)

\* C11: a predictive selection that finds a cached vector under the key of
\* its candidate list makes no scorer call and returns an admissible
\* candidate of minimal cached score, or the fallback's choice when no
\* candidate is admissible.
C11_CacheHitNoScorerCall ==
    [][(nsel' = nsel + 1 /\ UsableCacheEntry(mlsel'.servers))
          => LET servers == mlsel'.servers
                 best == MinAdmissible(servers, cache[generateCacheKey(servers)],
                                       Connections)
             IN
             /\ mlsel'.calls = 0
             /\ IF best # {} THEN mlsel'.chosen \in best
                ELSE mlsel'.chosen = WRRSelect(servers, currentWeights)]_vars

\* C12: a cached vector used for a selection has one score per candidate,
\* and it was stored by a selection on the same candidate list, so that
\* position i holds the score computed for the i-th candidate.
C12_CachedVectorMatchesCandidates ==
    [][(nsel' = nsel + 1 /\ mlsel'.path = "cache")
          => LET servers == mlsel'.servers
                 key == generateCacheKey(servers)
             IN
             /\ key \in DOMAIN cache
             /\ Len(cache[key]) = Len(servers)
             /\ cacheMeta[key].servers = servers]_vars

C12_Witness ==
    /\ mlsel.path = "cache"
    /\ Len(mlsel.servers) = 2
    /\ mlsel.chosen = mlsel.servers[2]
    /\ generateCacheKey(mlsel.servers) \in DOMAIN cache
    /\ cache[generateCacheKey(mlsel.servers)] = <<9, 1>>

\* C13: a selection served from the cache uses an entry stored at most 2s
\* earlier; an entry older than 2s is not used and the scorer is called.
C13_CacheEntryExpires ==
    [][(nsel' = nsel + 1)
          => LET key == generateCacheKey(mlsel'.servers) IN
             /\ mlsel'.path = "cache" => now - cacheMeta[key].at <= 2
             /\ (UsableCacheEntry(mlsel'.servers) /\ now - cacheMeta[key].at > 2)
                   => mlsel'.calls > 0]_vars

\* C14: the cache key of a candidate list changes whenever the in_flight
\* count of one of its candidates changes, and stays the same when no
\* feature of the list (id, cpu, memory, in_flight, error rate) changes.
C14_KeyCoversInFlight ==
    [][\A servers \in CandidateLists :
          (generateCacheKey(servers)' = generateCacheKey(servers))
             <=> (\A i \in 1..Len(servers) :
                     Connections'[servers[i]] = Connections[servers[i]])]_vars

\* C15: the n-th call (n = 0, 1, 2, ...) of round-robin on a fixed list of k
\* servers returns the server at position n mod k of the list.
C15_RoundRobinOrder ==
    [][(strategy = "round_robin" /\ trial.servers # <<>> /\ trial'.n = trial.n + 1)
          => trial'.last = trial.servers[(trial.n % Len(trial.servers)) + 1]]_vars

C15_Witness ==
    /\ strategy = "round_robin"
    /\ trial.servers = <<1, 2, 3>>
    /\ trial.n = 6
    /\ trial.last = 3
    /\ \A s \in {1, 2, 3} : trial.count[s] = 2

\* the configured weight of a server
WeightOf(s) == IF s \in WeightKeys THEN HardWeights[s] ELSE 0

\* the sum of the weights of the servers of a list
RECURSIVE ListWeight(_)
ListWeight(servers) ==
    IF servers = <<>> THEN 0 ELSE WeightOf(Head(servers)) + ListWeight(Tail(servers))

\* C16: after N calls of weighted round-robin on a fixed non-empty list, each
\* server s of the list was selected N * w_s / W times, give or take one,
\* W the sum of the weights of the list; after a whole number of periods of
\* W calls a heavier server was not selected less often than a lighter one.
C16_WeightedShare ==
    (strategy = "weighted_round_robin" /\ trial.servers # <<>>)
    => LET W == ListWeight(trial.servers) IN
       /\ \A s \in Range(trial.servers) :
             /\ trial.count[s] * W - trial.n * WeightOf(s) <= W
             /\ trial.n * WeightOf(s) - trial.count[s] * W <= W
       /\ (trial.n % W = 0)
             => \A s, t \in Range(trial.servers) :
                   WeightOf(s) > WeightOf(t) => trial.count[s] >= trial.count[t]

\* the alive server of minimal Connections, the lowest id among equals
LeastInFlight ==
    CHOOSE s \in {x \in Servers : Alive[x]} :
        \A t \in {x \in Servers : Alive[x]} :
            \/ Connections[s] < Connections[t]
            \/ (Connections[s] = Connections[t] /\ s <= t)

\* C17: least-connections selects the alive server whose Connections is
\* minimal, the one of lowest id among equals.
C17_LeastConnectionsPicksMinInFlight ==
    [][\A d \in Dispatchers :
          (strategy = "least_connections" /\ disp[d].pc = "idle"
             /\ disp'[d].pc = "selected")
          => disp'[d].server = LeastInFlight]_vars

\* C18: every SelectServer call on a non-empty list returns a server of that
\* list, for the four strategies called on their own and for the predictive
\* strategy in every state of breaker, cache and scorer.
C18_SelectionFromCandidates ==
    [][/\ (trial'.n = trial.n + 1 /\ trial.servers # <<>>)
             => (~trial'.failed /\ trial'.last \in Range(trial.servers))
       /\ (nsel' = nsel + 1)
             => (mlsel'.servers # <<>> /\ mlsel'.chosen \in Range(mlsel'.servers))]_vars

C18_Witness ==
    /\ strategy = "weighted_round_robin"
    /\ trial.servers = <<2, 3>>
    /\ trial.n = MaxTrial
    /\ trial.last \in {2, 3}
    /\ currentWeights[1] > 0

\* C19: SelectServer on an empty list returns no server, does not fail and
\* leaves the state of the strategy as it was.
C19_EmptyListReturnsNone ==
    [][(trial'.n = trial.n + 1 /\ trial.servers = <<>>)
          => /\ ~trial'.failed
             /\ trial'.last = NoServer
             /\ UNCHANGED <<counter, serverConnections, currentWeights>>]_vars

C21_SingleOutcomeRecord ==
    [][\A d \in Dispatchers :
          (disp[d].pc \in {"reserved", "forwarding"} /\ disp'[d].pc = "done")
          => /\ Len(disp'[d].rows) = 1
             /\ disp'[d].attempts = <<>>
             /\ totalRequests' = totalRequests + 1]_vars

\* C22: GET /health answers 200 when it found a server alive and 503 when it
\* found none; every server is listed exactly once, under healthy_servers if
\* its Alive was true when the handler read it and under unhealthy_servers
\* if not.
C22_HealthAnswer ==
    [][/\ (health.pc = "loop" /\ health' # health) =>
            LET s == ServerSeq[health.idx] IN
            /\ Alive[s] => (s \in health'.healthy /\ s \notin health'.unhealthy)
            /\ ~Alive[s] => (s \in health'.unhealthy /\ s \notin health'.healthy)
            /\ health'.healthy \ {s} = health.healthy
            /\ health'.unhealthy \ {s} = health.unhealthy
       /\ health'.pc = "done" =>
            /\ health'.healthy \cup health'.unhealthy = Servers
            /\ health'.healthy \cap health'.unhealthy = {}
            /\ (health'.healthy # {}) => health'.status = StatusOK
            /\ (health'.healthy = {}) => health'.status = StatusServiceUnavailable]_vars

C22_Witness ==
    /\ health.pc = "done"
    /\ health.status = StatusServiceUnavailable
    /\ health.unhealthy = Servers

SameRate(a, b) == a[1] * b[2] = b[1] * a[2]

\* C24: the success rate stored for a server is 1.0 when no request for it has
\* completed, and otherwise the share of successes among the requests
\* completed for it, a value between 0 and 1.
C24_SuccessRate ==
    \A s \in Servers :
        telemetry.rate[s] # <<0, 0>> =>
            /\ telemetry.rate[s][1] >= 0
            /\ telemetry.rate[s][1] <= telemetry.rate[s][2]
            /\ SameRate(telemetry.rate[s],
                        calculateSuccessRate(telemetry.outcomes[s]))

\* C25: whatever probes, dispatches and transport failures have happened, the
\* pool holds the servers it was built with, each with its id, URL, weight
\* and capacity.
C25_PoolIsStable == pool = RegisteredPool

C25_Witness ==
    /\ pool = RegisteredPool
    /\ \E d \in Dispatchers :
          /\ disp[d].pc = "done"
          /\ disp[d].exit = "transport_error"
          /\ ~Alive[disp[d].server]
    /\ prober.last # NoServer
    /\ ~prober.got200

\* C26: with the store unreachable the process still comes up and serves,
\* with every configured server in the pool.
C26_StartsWithoutStore ==
    (main.store = "down" /\ main.pc # "boot") =>
        /\ main.pc = "running"
        /\ Len(pool) = NumServers

\* C28: lb.mu is not held while a health probe, one of its retries or the
\* pause before a retry is under way.
C28_NoLockAcrossNetwork ==
    prober.phase = "check" => lbmu # <<"prober", 0>>

\* C29: GetServer raises Connections only of a server whose Alive is true
\* at that moment.
C29_ReservedServerIsAlive ==
    [][\A d \in Dispatchers :
          (disp[d].pc = "selected" /\ disp'[d].pc = "reserved")
          => Alive[disp[d].server]]_vars

C31_ReservationReleased ==
    \A d \in Dispatchers :
        (disp[d].nres = 1 /\ disp[d].nrel = 0) ~> (disp[d].nrel = 1)

\* C32: a selection whose first scorer attempt fails and whose next attempt
\* the scorer would answer with a valid vector makes that second attempt and
\* no third, selects by the scores, closes the breaker and does not fall
\* back; no selection makes more than 3 attempts.
C32_RetryIsEffective ==
    [][(nsel' = nsel + 1 /\ mlsel'.calls > 0)
          => /\ mlsel'.calls <= maxAttempts
             /\ scorer.kind = "recovering"
                   => /\ mlsel'.calls = 2
                      /\ mlsel'.path = "scorer"
                      /\ ~cb'.isOpen]_vars

\* C33: a prober step takes a server from alive to not alive only on the
\* third failed attempt in a row of one check; after a first or second
\* failed attempt the prober tries again and the server's Alive is untouched;
\* a check that ends with a 200, after none, one or two failures, leaves the
\* server alive and makes no further attempt on it.
C33_ThreeStrikes ==
    [][prober.phase = "check" /\ prober' # prober =>
          LET s == ServerSeq[prober.idx]
              ends == prober'.phase = "wait" \/ prober'.idx # prober.idx
          IN
          /\ (Alive[s] /\ ~Alive'[s]) =>
                (ends /\ prober'.fails = healthCheckRetries /\ ~prober'.got200)
          /\ ~ends => /\ prober'.i = prober.i + 1
                      /\ prober'.i < healthCheckRetries
                      /\ Alive' = Alive
          /\ (ends /\ prober'.got200) =>
                (Alive'[s] /\ prober'.fails = prober.i /\ prober'.fails < healthCheckRetries)
          /\ (ends /\ ~prober'.got200) => prober'.fails = healthCheckRetries]_vars

C33_Witness ==
    /\ prober.last # NoServer
    /\ prober.got200
    /\ prober.fails = 2
    /\ Alive[prober.last]

\* the place of a mutex in the order registry, backend, strategy, cache
Rank(l) ==
    IF l[1] = "registry" THEN 1
    ELSE IF l[1] = "backend" THEN 2
    ELSE IF l[1] = "strategy" THEN 3 ELSE 4

\* goroutine t waits for a mutex that is held
Blocked(t) == AtLock(t) /\ NextLockOf(t) \in HeldByAny

\* some goroutine inside an operation can take its next step
SomeoneRuns ==
    \E t \in Threads : locks.pc[t] < Len(locks.prog[t]) /\ ~Blocked(t)

\* C34: a goroutine that takes a mutex while it holds others holds only
\* mutexes that come earlier in the order registry, backend, strategy, cache,
\* and whenever a goroutine waits for a mutex some goroutine can go on.
C34_LockOrder ==
    [][/\ \A t \in Threads :
             \A l \in locks'.held[t] \ locks.held[t] :
                \A h \in locks.held[t] : Rank(h) < Rank(l)
       /\ ((\E t \in Threads : Blocked(t)) => SomeoneRuns)']_vars

C34_Witness ==
    /\ \E t \in Threads : Blocked(t)
    /\ \E t \in Threads : RegistryMu \in locks.held[t] /\ BreakerMu \in locks.held[t]
    /\ \E t \in Threads : \E s \in Servers : locks.held[t] = {BackendMu(s)}

\* C35: what a reader of a GetAllServers result sees as a server's Alive is
\* the value Alive had when GetAllServers returned, whatever the prober has
\* written since.
C35_SnapshotIsCopy ==
    [][(health.pc = "loop" /\ health' # health) =>
          LET s == ServerSeq[health.idx] IN
          (s \in health'.healthy) <=> health.snap[s]]_vars

\* nothing is under way: no probe cycle, no dispatch, no status write
Quiet ==
    /\ prober.phase = "wait"
    /\ \A d \in Dispatchers : disp[d].pc \in {"idle", "done"}
    /\ sink.pending = {}

\* C36: when no probe, dispatch or status write is under way, the status
\* last stored for each server equals the server's Alive.
C36_SinkMatchesAlive ==
    Quiet => \A s \in Servers : sink.last[s] = Alive[s]

\* C37: whatever candidate lists weighted round-robin has been called on,
\* the current weight of every server lies between -W and W, W the sum of
\* the configured weights.
C37_CurrentWeightsBounded ==
    \A k \in WeightKeys :
        /\ currentWeights[k] >= -sumWeights
        /\ currentWeights[k] <= sumWeights

C39_IndexInRange ==
    [][(strategy = "round_robin" /\ trial.servers # <<>>
          /\ trial'.n = trial.n + 1)
          => /\ RoundRobinIndex(trial.servers, counter)
                   \in 0..(Len(trial.servers) - 1)
             /\ ~trial'.failed
             /\ trial'.last \in Range(trial.servers)]_vars

\* the number of selections a round-robin strategy has served, modulo k, read
\* from its counter: the counter itself up to MaxInt, and MaxInt + 1 more
\* than its distance from MinInt after that
ServedMod(c, k) ==
    IF c >= 0 THEN c % k
    ELSE ((MaxInt % k) + 1 + ((c - MinInt) % k)) % k

\* C15 beyond the highest counter value: the n-th round-robin call on a list
\* of k servers returns the server at position n mod k also when n has
\* passed MaxInt.
C15_OrderPastWrap ==
    [][(strategy = "round_robin" /\ trial.servers # <<>>
          /\ trial'.n = trial.n + 1)
          => trial'.last =
                trial.servers[ServedMod(counter, Len(trial.servers)) + 1]]_vars

====
